---- MODULE Spec2Model ----
(***************************************************************************)
(* bank_vault: Vault<T>, a HashMap<VaultKey, T> behind a std::sync::Mutex. *)
(* Every public operation takes the mutex with try_lock().unwrap(): the    *)
(* acquisition never waits, it panics when the mutex is already held.      *)
(* update_item is remove(key) followed by add_with_key(updated, key), two  *)
(* separate acquisitions with the caller's closure run in between.         *)
(*                                                                         *)
(* A thread is a caller of one shared vault.  One call is                  *)
(*   Call* (entry and try_lock) -> Access* (map operation, guard drop)     *)
(*   -> Return                                                             *)
(* and a panic (failed try_lock, panicking closure) ends the call at       *)
(* "done" with the panic as its outcome.  Steps that touch only the        *)
(* thread's own locals are folded into the neighbouring step.              *)
(*                                                                         *)
(* Uuid::new_v4() is modelled as the documentation of VaultKey::new        *)
(* states it ("Creates a new unique VaultKey"): it yields a non-nil key    *)
(* that was not generated before.                                          *)
(***************************************************************************)
EXTENDS Integers, FiniteSets

\* ---- bounds ----
NumThreads == 2
MaxKey == 2
MaxValue == 2

Threads == 1..NumThreads
Keys == 0..MaxKey
Values == 1..MaxValue

\* Option<T>::None, and the empty slot of the map
Absent == 0
OptValues == Values \cup {Absent}

OptionIsSome(o) == o # Absent

OptionIsNone(o) == o = Absent

\* the closures handed to update_item in this model
Transforms == {"incr", "one"}

Operate(f, v) ==
    IF f = "incr" THEN (v % MaxValue) + 1 ELSE 1

\* ---- VaultKey ----
VaultKeyZero == 0

VaultKeyNewAny(used) == Keys \ {VaultKeyZero}

\* the keys VaultKey::new() can return once `used` have been generated
VaultKeyNew(used) == (Keys \ {VaultKeyZero}) \ used

\* ---- HashMap<VaultKey, T> ----
HashMapNew == [k \in Keys |-> Absent]

HashMapInsertDropped(m, k, v) == m

HashMapInsertUnderZero(m, k, v) == [m EXCEPT ![0] = v]

\* HashMap::insert: stores v under k, replacing what was there
HashMapInsert(m, k, v) == [m EXCEPT ![k] = v]

HashMapRemoveKept(m, k) == m

HashMapRemove(m, k) == [m EXCEPT ![k] = Absent]

HashMapContainsKeyAny(m, k) == \E j \in DOMAIN m : m[j] # Absent

HashMapContainsKey(m, k) == m[k] # Absent

HashMapClearFirst(m) == [k \in Keys |-> IF k = 0 THEN Absent ELSE m[k]]

HashMapClear(m) == [k \in Keys |-> Absent]

HashMapLen(m) == Cardinality({k \in Keys : m[k] # Absent})

\* ---- Mutex ----
TryLockAlways(l) == TRUE

\* Mutex::try_lock succeeds exactly when the mutex is not held
TryLockOk(l) == ~l

UnlockLeak(l) == l

\* dropping the MutexGuard releases the mutex
Unlock(l) == FALSE

\* ---- results of a call ----
Ret(tag, n) == [tag |-> tag, n |-> n]
NoRet == Ret("none", 0)
RetUnit == Ret("unit", 0)
RetBool(b) == Ret("bool", IF b THEN 1 ELSE 0)
RetKey(k) == Ret("key", k)
RetOption(o) == Ret("option", o)
LockPanic == Ret("lock_panic", 0)
OperationPanic == Ret("operation_panic", 0)

NoFn == "nofn"

VARIABLES
    items,      \* Vault.items: the map inside the mutex
    locked,     \* the mutex is held
    issued,     \* keys VaultKey::new() has returned so far
    pc,         \* per thread: position in its call
    op,         \* per thread: the public operation it is in
    call,       \* per thread: the function whose try_lock/access it is at
    key,        \* per thread: the key argument
    val,        \* per thread: the value in hand (to_add, i, updated)
    operation,  \* per thread: the closure of update_item
    ret,        \* per thread: the outcome of the call
    guard,      \* per thread: it owns the MutexGuard
    touched     \* per thread: this call has read or written the map

vars == <<items, locked, issued, pc, op, call, key, val, operation, ret, guard, touched>>

local == <<op, call, key, val, operation, ret, guard, touched>>

KnownKeys == issued \cup {VaultKeyZero}

Init ==
    /\ items = HashMapNew
    /\ locked = FALSE
    /\ issued = {}
    /\ pc = [t \in Threads |-> "idle"]
    /\ op = [t \in Threads |-> "none"]
    /\ call = [t \in Threads |-> "none"]
    /\ key = [t \in Threads |-> VaultKeyZero]
    /\ val = [t \in Threads |-> Absent]
    /\ operation = [t \in Threads |-> NoFn]
    /\ ret = [t \in Threads |-> NoRet]
    /\ guard = [t \in Threads |-> FALSE]
    /\ touched = [t \in Threads |-> FALSE]

\* a caller obtains a key of its own with VaultKey::new()
NewKey ==
    /\ \E k \in VaultKeyNew(issued) : issued' = issued \cup {k}
    /\ UNCHANGED <<items, locked, pc, local>>

\* self.items.try_lock().unwrap() of function c, entered by thread t with
\* arguments k, v: Ok(guard) when the mutex is free, else Err(WouldBlock) and
\* unwrap() panics
TryLock(t, c, k, v) ==
    /\ call' = [call EXCEPT ![t] = c]
    /\ key' = [key EXCEPT ![t] = k]
    /\ val' = [val EXCEPT ![t] = v]
    /\ IF TryLockOk(locked)
         THEN /\ locked' = TRUE
              /\ guard' = [guard EXCEPT ![t] = TRUE]
              /\ pc' = [pc EXCEPT ![t] = "locked"]
              /\ ret' = [ret EXCEPT ![t] = NoRet]
         ELSE /\ ret' = [ret EXCEPT ![t] = LockPanic]
              /\ pc' = [pc EXCEPT ![t] = "done"]
              /\ UNCHANGED <<locked, guard>>
    /\ UNCHANGED <<items, issued, touched>>

Invoke(t, o, c, k, v, f) ==
    /\ pc[t] = "idle"
    /\ op' = [op EXCEPT ![t] = o]
    /\ operation' = [operation EXCEPT ![t] = f]
    /\ TryLock(t, c, k, v)

CallAdd(t) == \E v \in Values : Invoke(t, "add", "add", VaultKeyZero, v, NoFn)

CallRemove(t) == \E k \in KnownKeys : Invoke(t, "remove", "remove", k, Absent, NoFn)

CallHasItem(t) == \E k \in KnownKeys : Invoke(t, "has_item", "has_item", k, Absent, NoFn)

CallAddWithKey(t) ==
    \E k \in KnownKeys, v \in Values : Invoke(t, "add_with_key", "add_with_key", k, v, NoFn)

\* update_item starts with self.remove(key)
CallUpdateItem(t) ==
    \E k \in KnownKeys, f \in Transforms : Invoke(t, "update_item", "remove", k, Absent, f)

CallClear(t) == Invoke(t, "clear", "clear", VaultKeyZero, Absent, NoFn)

AccessGuardOutlivesRemove(t, c) ==
    /\ pc[t] = "locked"
    /\ call[t] = c
    /\ touched' = [touched EXCEPT ![t] = TRUE]
    /\ IF op[t] = "update_item" /\ c = "remove"
         THEN UNCHANGED <<locked, guard>>
         ELSE /\ locked' = Unlock(locked)
              /\ guard' = [guard EXCEPT ![t] = FALSE]
    /\ UNCHANGED <<op, call, operation>>

\* the map operation of function c under the guard; the guard is dropped when
\* the statement (the function, for add) ends
Access(t, c) ==
    /\ pc[t] = "locked"
    /\ call[t] = c
    /\ touched' = [touched EXCEPT ![t] = TRUE]
    /\ locked' = Unlock(locked)
    /\ guard' = [guard EXCEPT ![t] = FALSE]
    /\ UNCHANGED <<op, call, operation>>

AccessAdd(t) ==
    /\ Access(t, "add")
    /\ \E k \in VaultKeyNew(issued) :
        /\ issued' = issued \cup {k}
        /\ items' = HashMapInsert(items, k, val[t])
        /\ key' = [key EXCEPT ![t] = k]
        /\ ret' = [ret EXCEPT ![t] = RetKey(k)]
    /\ pc' = [pc EXCEPT ![t] = "done"]
    /\ UNCHANGED val

\* insert(*key, to_add).is_none(); inside update_item the bool is dropped and
\* .is_some() of the mapped Option is true
AccessAddWithKey(t) ==
    /\ Access(t, "add_with_key")
    /\ items' = HashMapInsert(items, key[t], val[t])
    /\ ret' = [ret EXCEPT ![t] =
                 IF op[t] = "update_item" THEN RetBool(TRUE)
                 ELSE RetBool(OptionIsNone(items[key[t]]))]
    /\ pc' = [pc EXCEPT ![t] = "done"]
    /\ UNCHANGED <<issued, key, val>>

\* remove(key); inside update_item None makes .map(..).is_some() false and
\* Some(i) hands i to the closure
AccessRemove(t) ==
    /\ Access(t, "remove")
    /\ items' = HashMapRemove(items, key[t])
    /\ IF op[t] = "update_item"
         THEN IF OptionIsNone(items[key[t]])
                THEN /\ ret' = [ret EXCEPT ![t] = RetBool(FALSE)]
                     /\ pc' = [pc EXCEPT ![t] = "done"]
                     /\ UNCHANGED val
                ELSE /\ val' = [val EXCEPT ![t] = items[key[t]]]
                     /\ pc' = [pc EXCEPT ![t] = "operation"]
                     /\ UNCHANGED ret
         ELSE /\ ret' = [ret EXCEPT ![t] = RetOption(items[key[t]])]
              /\ pc' = [pc EXCEPT ![t] = "done"]
              /\ UNCHANGED val
    /\ UNCHANGED <<issued, key>>

AccessHasItem(t) ==
    /\ Access(t, "has_item")
    /\ ret' = [ret EXCEPT ![t] = RetBool(HashMapContainsKey(items, key[t]))]
    /\ pc' = [pc EXCEPT ![t] = "done"]
    /\ UNCHANGED <<items, issued, key, val>>

AccessClear(t) ==
    /\ Access(t, "clear")
    /\ items' = HashMapClear(items)
    /\ ret' = [ret EXCEPT ![t] = RetUnit]
    /\ pc' = [pc EXCEPT ![t] = "done"]
    /\ UNCHANGED <<issued, key, val>>

ApplyOperationTwice(t) ==
    /\ pc[t] = "operation"
    /\ TryLock(t, "add_with_key", key[t],
               Operate(operation[t], Operate(operation[t], val[t])))
    /\ UNCHANGED <<op, operation>>

\* update_item: let updated = operation(i); self.add_with_key(updated, key)
ApplyOperation(t) ==
    /\ pc[t] = "operation"
    /\ TryLock(t, "add_with_key", key[t], Operate(operation[t], val[t]))
    /\ UNCHANGED <<op, operation>>

\* update_item: the caller's closure panics
OperationPanics(t) ==
    /\ pc[t] = "operation"
    /\ ret' = [ret EXCEPT ![t] = OperationPanic]
    /\ pc' = [pc EXCEPT ![t] = "done"]
    /\ UNCHANGED <<items, locked, issued, op, call, key, val, operation, guard, touched>>

\* the caller takes the outcome; the thread is free for its next call
Return(t) ==
    /\ pc[t] = "done"
    /\ pc' = [pc EXCEPT ![t] = "idle"]
    /\ op' = [op EXCEPT ![t] = "none"]
    /\ call' = [call EXCEPT ![t] = "none"]
    /\ key' = [key EXCEPT ![t] = VaultKeyZero]
    /\ val' = [val EXCEPT ![t] = Absent]
    /\ operation' = [operation EXCEPT ![t] = NoFn]
    /\ ret' = [ret EXCEPT ![t] = NoRet]
    /\ touched' = [touched EXCEPT ![t] = FALSE]
    /\ UNCHANGED <<items, locked, issued, guard>>

Step(t) ==
    \/ CallAdd(t)
    \/ CallRemove(t)
    \/ CallHasItem(t)
    \/ CallAddWithKey(t)
    \/ CallUpdateItem(t)
    \/ CallClear(t)
    \/ AccessAdd(t)
    \/ AccessRemove(t)
    \/ AccessHasItem(t)
    \/ AccessAddWithKey(t)
    \/ AccessClear(t)
    \/ ApplyOperation(t)
    \/ OperationPanics(t)
    \/ Return(t)

Next == NewKey \/ \E t \in Threads : Step(t)

\* any number of threads call into one vault
Spec == Init /\ [][Next]_vars

\* one caller thread: the other threads never call
Solo == {t \in Threads : \A u \in Threads : t <= u}

NextSolo == NewKey \/ \E t \in Solo : Step(t)

SpecSolo == Init /\ [][NextSolo]_vars

\* no caller calls remove or clear (update_item still calls self.remove)
StepKeep(t) ==
    \/ CallAdd(t)
    \/ CallHasItem(t)
    \/ CallAddWithKey(t)
    \/ CallUpdateItem(t)
    \/ AccessAdd(t)
    \/ AccessRemove(t)
    \/ AccessHasItem(t)
    \/ AccessAddWithKey(t)
    \/ ApplyOperation(t)
    \/ OperationPanics(t)
    \/ Return(t)

NextKeep == NewKey \/ \E t \in Threads : StepKeep(t)

SpecKeep == Init /\ [][NextKeep]_vars

TypeOK ==
    /\ items \in [Keys -> OptValues]
    /\ locked \in BOOLEAN
    /\ issued \subseteq Keys \ {VaultKeyZero}
    /\ pc \in [Threads -> {"idle", "locked", "operation", "done"}]
    /\ guard \in [Threads -> BOOLEAN]
    /\ touched \in [Threads -> BOOLEAN]

\* ---- what the claims speak of ----

\* thread t takes the step that performs the map operation of function c
\* within public operation o
Performs(t, o, c) ==
    /\ pc[t] = "locked"
    /\ op[t] = o
    /\ call[t] = c
    /\ pc'[t] # "locked"

\* thread t has the outcome r of operation o in hand and has not returned yet
Finished(t, o, r) ==
    /\ pc[t] = "done"
    /\ op[t] = o
    /\ ret[t] = r

OthersUnchanged(k) == \A j \in Keys \ {k} : items'[j] = items[j]

\* C1: add_with_key(v2, k) on a key k that holds v1 returns false and leaves v1
\* stored under k.
C1_CollisionKeepsOriginal ==
    [][\A t \in Threads :
        (Performs(t, "add_with_key", "add_with_key") /\ HashMapContainsKey(items, key[t]))
            => /\ ret'[t] = RetBool(FALSE)
               /\ items'[key[t]] = items[key[t]]]_vars

\* C2: while a thread is inside update_item(k, f) on a key it found present,
\* and nobody calls remove or clear, a has_item(k) of another thread returns
\* true.
C2_UpdateItemAtomic ==
    [][\A t, u \in Threads :
        (/\ t # u
         /\ op[t] = "update_item"
         /\ pc[t] = "operation"
         /\ Performs(u, "has_item", "has_item")
         /\ key[u] = key[t])
            => ret'[u] = RetBool(TRUE)]_vars

\* C3: no call ends in a failed lock acquisition: a call made while another
\* thread holds the lock completes normally.
C3_EveryCallCompletes == \A t \in Threads : ret[t] # LockPanic

\* C4: linearizability, for two calls in flight together on one key (two
\* threads, every earlier call returned): an update_item(k, f) that returned
\* true next to a remove(k) that returned None has no sequential order; next
\* to an add_with_key(w, k) that returned true the only order is add_with_key
\* then update_item, which leaves f(w) under k; next to a clear() the only
\* order is update_item then clear, which leaves the map empty.
C4_Linearizable ==
    \A t, u \in Threads :
        (t # u /\ Finished(t, "update_item", RetBool(TRUE)) /\ pc[u] = "done")
            => /\ ~(op[u] = "remove" /\ key[u] = key[t] /\ ret[u] = RetOption(Absent))
               /\ (op[u] = "add_with_key" /\ key[u] = key[t] /\ ret[u] = RetBool(TRUE))
                    => items[key[t]] = Operate(operation[t], val[u])
               /\ (op[u] = "clear" /\ ret[u] = RetUnit) => items = HashMapNew

\* C5: a call that ended in a failed lock acquisition has neither read nor
\* written the map.
C5_FailedLockTouchesNothing ==
    \A t \in Threads : (pc[t] = "done" /\ ret[t] = LockPanic) => ~touched[t]

\* C6: at most one thread holds the lock; a thread about to read or write the
\* map holds it; and the map changes only in a step of the thread that holds it.
C6_MutualExclusion ==
    /\ [](/\ Cardinality({t \in Threads : guard[t]}) <= 1
          /\ locked <=> (\E t \in Threads : guard[t])
          /\ \A t \in Threads : pc[t] = "locked" => guard[t])
    /\ [][items' # items => \E t \in Threads : guard[t] /\ pc[t] = "locked" /\ pc'[t] # "locked"]_vars

C6_Witness ==
    \E t, u \in Threads :
        /\ t # u
        /\ guard[t]
        /\ locked
        /\ pc[u] = "done"
        /\ ret[u] = LockPanic

\* C7: a thread whose operation has finished (returned, or panicked at the
\* acquisition or in the closure of update_item) or that runs the closure does
\* not hold the lock, and when no thread is inside a locked section the lock is
\* free for the next call.
C7_LockReleased ==
    /\ \A t \in Threads : pc[t] \in {"idle", "done", "operation"} => ~guard[t]
    /\ (\A t \in Threads : pc[t] \in {"idle", "done", "operation"}) => ~locked

C7_Witness ==
    \E t, u \in Threads :
        /\ t # u
        /\ Finished(t, "update_item", OperationPanic)
        /\ touched[t]
        /\ pc[u] = "done"
        /\ ret[u] \notin {LockPanic, OperationPanic}
        /\ ~locked

\* C8: add_with_key(v, k) returns true exactly when k was absent before it;
\* afterwards k is present; when it returned true k holds v and every other
\* entry is as before.
C8_AddWithKey ==
    [][\A t \in Threads :
        Performs(t, "add_with_key", "add_with_key")
            => /\ (ret'[t] = RetBool(TRUE)) <=> ~HashMapContainsKey(items, key[t])
               /\ ret'[t] \in {RetBool(TRUE), RetBool(FALSE)}
               /\ HashMapContainsKey(items', key[t])
               /\ (ret'[t] = RetBool(TRUE))
                    => (items'[key[t]] = val[t] /\ OthersUnchanged(key[t]))]_vars

C8_Witness ==
    \E t \in Threads :
        /\ Finished(t, "add_with_key", RetBool(TRUE))
        /\ items[key[t]] = val[t]
        /\ \E j \in Keys \ {key[t]} : HashMapContainsKey(items, j)

\* C9: right after add(v) has returned key K, K is present and holds v.
C9_AddThenHasItem ==
    \A t \in Solo :
        (pc[t] = "done" /\ op[t] = "add" /\ ret[t] # LockPanic)
            => /\ ret[t].tag = "key"
               /\ HashMapContainsKey(items, ret[t].n)
               /\ items[ret[t].n] = val[t]

C9_Witness ==
    \E t \in Solo :
        /\ pc[t] = "done"
        /\ op[t] = "add"
        /\ ret[t].tag = "key"
        /\ HashMapLen(items) >= 2

\* C10: the key an add returns was never generated before (so no earlier add
\* returned it) and is not present; the add replaces nothing and the map grows
\* by exactly one entry.
C10_AddKeysUnique ==
    [][\A t \in Threads :
        Performs(t, "add", "add")
            => /\ ret'[t].tag = "key"
               /\ ret'[t].n \notin issued
               /\ ret'[t].n # VaultKeyZero
               /\ ~HashMapContainsKey(items, ret'[t].n)
               /\ OthersUnchanged(ret'[t].n)
               /\ HashMapLen(items') = HashMapLen(items) + 1]_vars

C10_Witness ==
    \E t \in Threads :
        /\ pc[t] = "done" /\ op[t] = "add" /\ ret[t].tag = "key"
        /\ HashMapLen(items) = 3
        /\ \E j \in Keys \ {VaultKeyZero, ret[t].n} : items[j] = items[ret[t].n]

\* C11: remove(k) on a present key returns the value stored under k, leaves k
\* absent and every other entry as it was; has_item(k) and remove(k) that
\* follow find k absent and return false and None.
C11_RemovePresent ==
    [][\A t \in Threads :
        /\ (Performs(t, "remove", "remove") /\ items[key[t]] # Absent)
            => /\ ret'[t] = RetOption(items[key[t]])
               /\ items'[key[t]] = Absent
               /\ OthersUnchanged(key[t])
        /\ (Performs(t, "has_item", "has_item") /\ items[key[t]] = Absent)
            => ret'[t] = RetBool(FALSE)
        /\ (Performs(t, "remove", "remove") /\ items[key[t]] = Absent)
            => ret'[t] = RetOption(Absent)]_vars

C11_Witness ==
    \E t \in Threads :
        /\ pc[t] = "done"
        /\ op[t] = "remove"
        /\ ret[t].tag = "option"
        /\ ret[t].n # Absent
        /\ items[key[t]] = Absent
        /\ \E j \in Keys \ {key[t]} : items[j] # Absent

\* C12: with one caller, update_item(k, f) on a key holding v takes v out,
\* applies f to it once, stores f(v) under k and returns true; every other
\* entry stays as it was throughout.
C12_UpdatePresent ==
    [][\A t \in Threads :
        /\ (Performs(t, "update_item", "remove") /\ items[key[t]] # Absent)
            => /\ pc'[t] = "operation"
               /\ val'[t] = items[key[t]]
               /\ OthersUnchanged(key[t])
        /\ (pc[t] = "operation" /\ pc'[t] = "locked")
            => /\ val'[t] = Operate(operation[t], val[t])
               /\ key'[t] = key[t]
               /\ items' = items
        /\ Performs(t, "update_item", "add_with_key")
            => /\ ret'[t] = RetBool(TRUE)
               /\ items'[key[t]] = val[t]
               /\ OthersUnchanged(key[t])]_vars

C12_Witness ==
    \E t \in Threads :
        /\ Finished(t, "update_item", RetBool(TRUE))
        /\ operation[t] = "incr"
        /\ items[key[t]] = val[t]
        /\ \E j \in Keys \ {key[t]} : items[j] # Absent

\* C13: on an absent key remove returns None, has_item returns false and
\* update_item returns false without running the closure; the map is the same
\* after each of them.
C13_AbsentKey ==
    [][\A t \in Threads :
        (pc[t] = "locked" /\ pc'[t] # "locked" /\ items[key[t]] = Absent)
            => /\ Performs(t, "remove", "remove")
                    => (ret'[t] = RetOption(Absent) /\ items' = items)
               /\ Performs(t, "has_item", "has_item")
                    => (ret'[t] = RetBool(FALSE) /\ items' = items)
               /\ Performs(t, "update_item", "remove")
                    => (ret'[t] = RetBool(FALSE) /\ pc'[t] = "done" /\ items' = items)]_vars

C13_Witness ==
    \E t \in Threads :
        /\ Finished(t, "update_item", RetBool(FALSE))
        /\ items[key[t]] = Absent
        /\ \E j \in Keys : items[j] # Absent

\* C14: when clear() has returned the map is empty: no key is present.
C14_ClearEmpties ==
    \A t \in Solo :
        (pc[t] = "done" /\ op[t] = "clear")
            => /\ ret[t] = RetUnit
               /\ \A k \in Keys : ~HashMapContainsKey(items, k)
               /\ HashMapLen(items) = 0

C14_Witness ==
    \E t \in Solo :
        /\ Finished(t, "clear", RetUnit)
        /\ touched[t]
        /\ Cardinality(issued) = MaxKey
        /\ items = HashMapNew

\* C15: a key becomes present only in the step of an add that returns it, of
\* an add_with_key that was given it, or of the re-insertion of an update_item
\* that had found it present; so every present key was once added.
C15_PresentWereAdded ==
    /\ [](\A k \in Keys : items[k] # Absent => k \in KnownKeys)
    /\ [][\A k \in Keys :
            (items[k] = Absent /\ items'[k] # Absent)
                => \E t \in Threads :
                      \/ Performs(t, "add", "add") /\ ret'[t] = RetKey(k)
                      \/ Performs(t, "add_with_key", "add_with_key") /\ key[t] = k
                      \/ Performs(t, "update_item", "add_with_key") /\ key[t] = k]_vars

C15_Witness ==
    \E t \in Threads :
        /\ Finished(t, "has_item", RetBool(FALSE))
        /\ key[t] \in issued
        /\ \E j \in Keys \ {key[t]} : items[j] # Absent

\* C16: has_item(k) leaves the map as it was and returns true exactly when k
\* is present.
C16_HasItemPure ==
    [][\A t \in Threads :
        Performs(t, "has_item", "has_item")
            => /\ items' = items
               /\ ret'[t] = RetBool(items[key[t]] # Absent)]_vars

C16_Witness ==
    \E t \in Threads :
        /\ Finished(t, "has_item", RetBool(TRUE))
        /\ items[key[t]] # Absent
        /\ \E j \in Keys : items[j] = Absent

\* C17: an update_item(k, f) that found k present leaves k present when it
\* ends, whether it returned true or ended in a panic (one caller, so nobody
\* else removes k or clears).
C17_UpdateKeepsPresent ==
    \A t \in Solo :
        (pc[t] = "done" /\ op[t] = "update_item" /\ ret[t] # RetBool(FALSE))
            => items[key[t]] # Absent

\* C18: the re-insertion of update_item(k, f) finds k absent, so it replaces
\* nothing another operation stored under k.
C18_ReinsertFindsAbsent ==
    [][\A t \in Threads :
        Performs(t, "update_item", "add_with_key") => items[key[t]] = Absent]_vars

\* C19: while the closure of update_item runs, its thread owns no guard and,
\* with one caller, the mutex is free: a vault operation called from the
\* closure acquires it.
C19_ClosureRunsUnlocked ==
    \A t \in Threads :
        pc[t] = "operation" => (~guard[t] /\ ~locked)

C19_Witness ==
    \E t \in Solo :
        /\ pc[t] = "operation"
        /\ op[t] = "update_item"
        /\ touched[t]
        /\ val[t] # Absent

\* C20: with one caller no acquisition fails: the mutex is free whenever the
\* caller is about to try_lock (at the start of a call and at the second
\* acquisition of update_item), and no call ends in a lock panic.
C20_SoloNeverFails ==
    \A t \in Solo :
        /\ pc[t] \in {"idle", "operation"} => ~locked
        /\ pc[t] = "done" => ret[t] \notin {LockPanic, NoRet}

C20_Witness ==
    \E t \in Solo :
        /\ Finished(t, "update_item", RetBool(TRUE))
        /\ call[t] = "add_with_key"
        /\ ~locked
====
